---- MODULE Spec2Model ----
(***************************************************************************)
(* TCP monitor (monitor.py): one invocation of main() is one cycle.  A     *)
(* cycle loads the target list and the persisted state mapping, processes  *)
(* every enabled target in list order (probe with retries, counters,       *)
(* combined status, notifications), removes stale keys and saves.          *)
(***************************************************************************)
EXTENDS Integers, Sequences, FiniteSets, TLC

\* ---------------------------------------------------------------- bounds
MaxCycles == 4
MaxFail == 3
MaxRecovery == 2
CycleSeconds == 1830
MaxRetries == 4
MaxRenameCycles == 3
MaxDupCycles == 1
MaxDupTargets == 2

\* ------------------------------------------------------- program constants
DefaultPort == 3389
RETRIES_PER_CHECK == 2

\* ------------------------------------------------------------ input sets
HostNames == {"a", "b"}
Names == {"n1"}
\* values of the "enabled" field: the booleans True and False, the integer 0,
\* a missing field, and strings (written in quotes)
EnabledVals == {"True", "False", "0", "absent", "'false'", "'No'", "'0'", "'yes'"}
\* port 0 stands for an entry without a port
Ports == {0, DefaultPort}
RawItems == [name : Names, host : HostNames, port : Ports, enabled : EnabledVals]

None == 0

VARIABLES
  pc,                 \* position in main(): "idle" (between runs) or "loop"
  disk,               \* contents of statuses.json: key -> record
  statuses,           \* the in-memory mapping of the running cycle
  hosts,              \* result of load_hosts() of the running cycle
  idx,                \* index of the next entry of hosts to process
  now,                \* wall clock, seconds
  sent,               \* notifications emitted in the running cycle, in order
  deliveries,         \* what became of each notification of sent
  saves,              \* calls of save_statuses in the running cycle
  FAIL_THRESHOLD,     \* environment of the program
  RECOVERY_THRESHOLD,
  enabledKeys,        \* observer: keys of the enabled entries of the loaded list
  disabledKeys,       \* observer: keys of the entries listed with enabled = false
  removed,            \* keys removed as stale by the last reconciliation (logged)
  track,              \* observer: per key, the run of raw samples being observed
  probe,              \* one call of tcp_check_with_retries, step by step
  disk2,              \* monitor2.py run on the same inputs: its statuses.json,
  statuses2,          \* its in-memory mapping
  sent2               \* and its notifications of the running cycle

vars == <<pc, disk, statuses, hosts, idx, now, sent, deliveries, saves, FAIL_THRESHOLD,
          RECOVERY_THRESHOLD, enabledKeys, disabledKeys, removed, track, probe,
          disk2, statuses2, sent2>>

\* ----------------------------------------------------------------- helpers
Max(a, b) == IF a >= b THEN a ELSE b

\* key = f"{host}:{port}"
Key(h) == <<h.host, h.port>>

AllKeys == {<<hn, DefaultPort>> : hn \in HostNames}

IsStr(e) == e \in {"'false'", "'No'", "'0'", "'yes'"}

\* str.lower() on the strings of EnabledVals
Lower(e) == IF e = "'No'" THEN "'no'" ELSE e

\* enabled = item.get("enabled", True); a string is enabled unless its lower
\* case is "false", "0" or "no"; any other value is taken by its truth value
IsEnabled(e) ==
  IF e = "absent" THEN TRUE
  ELSE IF IsStr(e) THEN Lower(e) \notin {"'false'", "'0'", "'no'"}
  ELSE e = "True"

RECURSIVE load_hosts(_)
load_hosts(data) ==
  IF data = <<>> THEN <<>>
  ELSE LET item == Head(data)
           rest == load_hosts(Tail(data))
       IN IF ~IsEnabled(item.enabled) THEN rest
          ELSE <<[name |-> item.name, host |-> item.host,
                  port |-> IF item.port = 0 THEN DefaultPort ELSE item.port]>> \o rest

\* for i in range(max(1, retries)): first success returns True
RECURSIVE tcp_attempts(_, _, _)
tcp_attempts(outcomes, i, n) ==
  IF i > n THEN [result |-> FALSE, attempts |-> n, sleeps |-> n]
  ELSE IF outcomes[i] THEN [result |-> TRUE, attempts |-> i, sleeps |-> i - 1]
  ELSE tcp_attempts(outcomes, i + 1, n)

tcp_check_with_retries(outcomes, retries) == tcp_attempts(outcomes, 1, Max(1, retries))

\* hours, minutes, seconds of now - iso_ts, leading zero units omitted
format_duration_since(iso_ts, t) ==
  IF iso_ts = None THEN <<"?">>
  ELSE LET s == t - iso_ts
           h == s \div 3600
           m == (s % 3600) \div 60
           sec == s % 60
       IN IF h > 0 THEN <<h, m, sec>>
          ELSE IF m > 0 THEN <<m, sec>>
          ELSE <<sec>>

Put(f, k, v) == [x \in (DOMAIN f) \cup {k} |-> IF x = k THEN v ELSE f[x]]

prev_combined_of(st, key) == IF key \in DOMAIN st THEN st[key].combined ELSE ""

\* ---------------------------------------------------------- the engine
NewRecord(h, temp) ==
  [name |-> h.name, host |-> h.host, port |-> h.port, combined |-> temp,
   consec_fails |-> 0, consec_success |-> 0, offline_since |-> None,
   last_check |-> None]

\* a rename that restarts the counters
UpdateName_reset(rec, name) ==
  IF rec.name # name
  THEN [rec EXCEPT !.name = name, !.consec_fails = 0, !.consec_success = 0]
  ELSE rec

UpdateName(rec, name) == IF rec.name # name THEN [rec EXCEPT !.name = name] ELSE rec

\* counters that are never reset by a sample of the opposite direction
UpdateCounters_noReset(rec, temp, t) ==
  IF temp = "online"
  THEN [rec EXCEPT !.consec_success = rec.consec_success + 1]
  ELSE [rec EXCEPT !.consec_fails = rec.consec_fails + 1,
                   !.offline_since = IF rec.offline_since = None THEN t
                                     ELSE rec.offline_since]

\* counters that never record the start of a failing streak
UpdateCounters_noSince(rec, temp, t) ==
  IF temp = "online"
  THEN [rec EXCEPT !.consec_success = rec.consec_success + 1, !.consec_fails = 0]
  ELSE [rec EXCEPT !.consec_fails = rec.consec_fails + 1, !.consec_success = 0]

UpdateCounters(rec, temp, t) ==
  IF temp = "online"
  THEN [rec EXCEPT !.consec_success = rec.consec_success + 1, !.consec_fails = 0]
  ELSE [rec EXCEPT !.consec_fails = rec.consec_fails + 1, !.consec_success = 0,
                   !.offline_since = IF rec.offline_since = None THEN t
                                     ELSE rec.offline_since]

\* a combined status that is kept as it was seeded
SetCombined_keep(rec, temp, t) == [rec EXCEPT !.last_check = t]

SetCombined(rec, temp, t) == [rec EXCEPT !.combined = temp, !.last_check = t]

\* level-triggered: fires on every failing sample at or above the threshold
OfflineFires_level(rec, temp, prev_combined, failThreshold) ==
  /\ temp = "offline"
  /\ rec.consec_fails >= failThreshold

\* the threshold must be exceeded, not reached
OfflineFires_strict(rec, temp, prev_combined, failThreshold) ==
  /\ temp = "offline"
  /\ prev_combined # "offline"
  /\ rec.consec_fails > failThreshold

OfflineFires(rec, temp, prev_combined, failThreshold) ==
  /\ temp = "offline"
  /\ prev_combined # "offline"
  /\ rec.consec_fails >= failThreshold

OnlineFires(rec, temp, prev_combined, recoveryThreshold) ==
  /\ temp = "online"
  /\ prev_combined = "offline"
  /\ rec.consec_success >= recoveryThreshold

OfflineMsg(rec) ==
  [kind |-> "OFFLINE", name |-> rec.name, host |-> rec.host, port |-> rec.port,
   time |-> rec.offline_since, fails |-> rec.consec_fails, downtime |-> <<>>]

OnlineMsg(rec, t) ==
  [kind |-> "ONLINE", name |-> rec.name, host |-> rec.host, port |-> rec.port,
   time |-> rec.last_check, fails |-> 0,
   downtime |-> format_duration_since(rec.offline_since, t)]

\* one iteration of the loop of main() over a target h with raw sample is_online
Engine(st, h, is_online, t, failThreshold, recoveryThreshold) ==
  LET key == Key(h)
      prev_combined == prev_combined_of(st, key)
      temp == IF is_online THEN "online" ELSE "offline"
      rec0 == IF key \in DOMAIN st THEN st[key] ELSE NewRecord(h, temp)
      rec1 == UpdateName(rec0, h.name)
      rec2 == UpdateCounters(rec1, temp, t)
      rec3 == SetCombined(rec2, temp, t)
      off == OfflineFires(rec3, temp, prev_combined, failThreshold)
      on == OnlineFires(rec3, temp, prev_combined, recoveryThreshold)
      rec4 == IF on THEN [rec3 EXCEPT !.offline_since = None] ELSE rec3
  IN [rec |-> rec4,
      msgs |-> (IF off THEN <<OfflineMsg(rec3)>> ELSE <<>>)
               \o (IF on THEN <<OnlineMsg(rec3, t)>> ELSE <<>>)]

\* ------------------------------------------------- the engine of monitor2.py
\* format_duration of monitor2.py: "" instead of "?" for a missing time
format_duration(iso_ts, t) ==
  IF iso_ts = None THEN <<"">>
  ELSE LET s == t - iso_ts
           h == s \div 3600
           m == (s % 3600) \div 60
           sec == s % 60
       IN IF h > 0 THEN <<h, m, sec>>
          ELSE IF m > 0 THEN <<m, sec>>
          ELSE <<sec>>

\* a recovery that also fires for a target without a prior status
OnlineFires2_fromUnknown(rec, temp, prev_combined, recoveryThreshold) ==
  /\ temp = "online"
  /\ prev_combined # "online"
  /\ rec.consec_success >= recoveryThreshold

OnlineFires2(rec, temp, prev_combined, recoveryThreshold) ==
  /\ temp = "online"
  /\ prev_combined = "offline"
  /\ rec.consec_success >= recoveryThreshold

\* one iteration of the loop of main() of monitor2.py
Engine2(st, h, is_online, t, failThreshold, recoveryThreshold) ==
  LET key == <<h.host, h.port>>
      prev_combined == IF key \in DOMAIN st THEN st[key].combined ELSE ""
      temp == IF is_online THEN "online" ELSE "offline"
      rec0 == IF key \in DOMAIN st THEN st[key]
              ELSE [name |-> h.name, host |-> h.host, port |-> h.port,
                    combined |-> temp, consec_fails |-> 0, consec_success |-> 0,
                    offline_since |-> None, last_check |-> None]
      rec1 == IF rec0.name # h.name THEN [rec0 EXCEPT !.name = h.name] ELSE rec0
      rec2 == IF temp = "online"
              THEN [rec1 EXCEPT !.consec_success = @ + 1, !.consec_fails = 0]
              ELSE [rec1 EXCEPT !.consec_fails = @ + 1, !.consec_success = 0,
                                !.offline_since = IF @ = None THEN t ELSE @]
      rec3 == [rec2 EXCEPT !.combined = temp, !.last_check = t]
      off == /\ temp = "offline"
             /\ prev_combined # "offline"
             /\ rec3.consec_fails >= failThreshold
      on == OnlineFires2(rec3, temp, prev_combined, recoveryThreshold)
      down == IF rec3.offline_since # None
              THEN format_duration(rec3.offline_since, t) ELSE <<"?">>
      rec4 == IF on THEN [rec3 EXCEPT !.offline_since = None] ELSE rec3
  IN [rec |-> rec4,
      msgs |-> (IF off
                THEN <<[kind |-> "OFFLINE", name |-> rec3.name, host |-> rec3.host,
                        port |-> rec3.port, time |-> rec3.offline_since,
                        fails |-> rec3.consec_fails, downtime |-> <<>>]>>
                ELSE <<>>)
               \o (IF on
                   THEN <<[kind |-> "ONLINE", name |-> rec3.name, host |-> rec3.host,
                           port |-> rec3.port, time |-> rec3.last_check,
                           fails |-> 0, downtime |-> down]>>
                   ELSE <<>>)]

\* ----------------------------------------------------------- the notifier
\* how a notification is handed over: DRY_RUN set, no token or chat id, the
\* HTTP call returns, the HTTP call raises
DeliveryModes == {"dry_run", "unconfigured", "posted", "error"}

\* DRY_RUN and the secrets are read once per run, the HTTP outcome per call
SameRun(mode, earlier) ==
  \A i \in 1..Len(earlier) :
    (mode \in {"posted", "error"}) = (earlier[i] \in {"posted", "error"})
    /\ (mode \in {"posted", "error"} \/ mode = earlier[i])

\* a notifier whose HTTP error escapes to the caller
send_telegram_raising(mode) ==
  [outcome |-> mode, raised |-> mode = "error"]

\* if DRY_RUN: print(...) else: send_telegram(msg); requests' exception is
\* caught and printed
send_telegram(mode) ==
  [outcome |-> mode, raised |-> FALSE]

\* a loop body that writes statuses.json after every target
DiskAfterTarget_saving(d, st) == st

\* the loop body never calls save_statuses
DiskAfterTarget(d, st) == d

\* json.dump(statuses, f): the file is overwritten wholesale
save_statuses(d, st) == st

\* what an observer of one key has seen since the key's record was created:
\* dir/len: direction and length of the current run of raw samples; prevLen:
\* length of the run before it; changes/notes: changes of combined (after
\* creation) and notifications within the current run; start: time of the
\* run's first sample; last: kind of the last notification; inCycle: samples
\* of the key in the running cycle
NoTrack ==
  [dir |-> "", len |-> 0, prevLen |-> 0, changes |-> 0, notes |-> 0,
   start |-> None, last |-> "none", inCycle |-> 0]

Observe(tr, temp, changed, msgs, t) ==
  LET same == tr.dir = temp
  IN [dir |-> temp,
      len |-> IF same THEN tr.len + 1 ELSE 1,
      prevLen |-> IF same THEN tr.prevLen ELSE tr.len,
      changes |-> (IF same THEN tr.changes ELSE 0) + (IF changed THEN 1 ELSE 0),
      notes |-> (IF same THEN tr.notes ELSE 0) + Len(msgs),
      start |-> IF same THEN tr.start ELSE t,
      last |-> IF msgs = <<>> THEN tr.last ELSE msgs[Len(msgs)].kind,
      inCycle |-> tr.inCycle + 1]

\* no call of tcp_check_with_retries is being followed
ProbeOff ==
  [pc |-> "off", retries |-> 0, outcomes |-> <<>>, i |-> 0, last |-> FALSE,
   result |-> FALSE, attempts |-> 0, sleeps |-> 0, trail |-> <<>>]

\* ------------------------------------------------------------------- Init
Init ==
  /\ pc = "idle"
  /\ disk = <<>>
  /\ statuses = <<>>
  /\ hosts = <<>>
  /\ idx = 1
  /\ now = 0
  /\ sent = <<>>
  /\ deliveries = <<>>
  /\ saves = 0
  /\ FAIL_THRESHOLD \in 1..MaxFail
  /\ RECOVERY_THRESHOLD \in 1..MaxRecovery
  /\ enabledKeys = {}
  /\ disabledKeys = {}
  /\ removed = {}
  /\ track = [k \in AllKeys |-> NoTrack]
  /\ probe = ProbeOff
  /\ disk2 = <<>>
  /\ statuses2 = <<>>
  /\ sent2 = <<>>

\* ---------------------------------------------------------------- actions
\* the contents of hosts.yaml: every list that names no host:port twice
TargetLists ==
  {data \in UNION {[1..n -> RawItems] : n \in 0..Cardinality(HostNames)} :
     \A i, j \in 1..Len(data) : i # j => data[i].host # data[j].host}

\* the forms of enabled = false of a target list
FalseForms == {"False", "0", "'false'", "'0'", "'No'"}

EnabledKeysOf(data) ==
  {<<data[i].host, IF data[i].port = 0 THEN DefaultPort ELSE data[i].port>> :
     i \in {j \in 1..Len(data) : data[j].enabled \notin FalseForms}}

DisabledKeysOf(data) ==
  {<<data[i].host, IF data[i].port = 0 THEN DefaultPort ELSE data[i].port>> :
     i \in {j \in 1..Len(data) : data[j].enabled \in FalseForms}}

\* hosts = load_hosts(); statuses = load_statuses()
StartCycleOn(lists, lastStart) ==
  /\ pc = "idle"
  /\ now < lastStart
  /\ \E data \in lists :
       /\ hosts' = load_hosts(data)
       /\ enabledKeys' = EnabledKeysOf(data)
       /\ disabledKeys' = DisabledKeysOf(data)
  /\ statuses' = disk
  /\ idx' = 1
  /\ now' = now + CycleSeconds
  /\ sent' = <<>>
  /\ deliveries' = <<>>
  /\ saves' = 0
  /\ removed' = {}
  /\ pc' = "loop"
  /\ track' = [k \in AllKeys |-> [track[k] EXCEPT !.inCycle = 0]]
  /\ statuses2' = disk2
  /\ sent2' = <<>>
  /\ UNCHANGED <<disk, disk2, FAIL_THRESHOLD, RECOVERY_THRESHOLD, probe>>

StartCycle == StartCycleOn(TargetLists, MaxCycles * CycleSeconds)

\* the body of "for h in hosts" for h = hosts[idx]; an exception that leaves
\* the body ends the run before the reconciliation and the save
ProcessTarget ==
  /\ pc = "loop"
  /\ idx <= Len(hosts)
  /\ \E outcomes \in [1..Max(1, RETRIES_PER_CHECK) -> BOOLEAN] :
     \E mode \in {m \in DeliveryModes : SameRun(m, deliveries)} :
       LET h == hosts[idx]
           key == Key(h)
           is_online == tcp_check_with_retries(outcomes, RETRIES_PER_CHECK).result
           temp == IF is_online THEN "online" ELSE "offline"
           r == Engine(statuses, h, is_online, now, FAIL_THRESHOLD, RECOVERY_THRESHOLD)
           changed == key \in DOMAIN statuses /\ statuses[key].combined # r.rec.combined
           d == send_telegram(mode)
           r2 == Engine2(statuses2, h, is_online, now, FAIL_THRESHOLD, RECOVERY_THRESHOLD)
       IN IF r.msgs # <<>> /\ d.raised
          THEN /\ pc' = "idle"
               /\ statuses' = <<>>
               /\ statuses2' = <<>>
               /\ sent2' = <<>>
               /\ hosts' = <<>>
               /\ idx' = 1
               /\ sent' = <<>>
               /\ deliveries' = <<>>
               /\ UNCHANGED <<disk, track>>
          ELSE /\ statuses' = Put(statuses, key, r.rec)
               /\ sent' = sent \o r.msgs
               /\ deliveries' = deliveries \o [i \in 1..Len(r.msgs) |-> d.outcome]
               /\ track' = [track EXCEPT ![key] = Observe(@, temp, changed, r.msgs, now)]
               /\ disk' = DiskAfterTarget(disk, statuses')
               /\ statuses2' = Put(statuses2, key, r2.rec)
               /\ sent2' = sent2 \o r2.msgs
               /\ idx' = idx + 1
               /\ UNCHANGED <<pc, hosts>>
  /\ UNCHANGED <<now, saves, FAIL_THRESHOLD, RECOVERY_THRESHOLD,
                 enabledKeys, disabledKeys, removed, probe, disk2>>

current_keys(hs) == {Key(hs[i]) : i \in 1..Len(hs)}

\* a reconciliation that deletes nothing
remove_stale_none(st, keys) == st

\* for k in list(statuses.keys()): if k not in current_keys: del statuses[k]
remove_stale(st, keys) == [x \in (DOMAIN st) \cap keys |-> st[x]]

\* removal of stale keys and save_statuses(statuses); the process then exits
\* and its memory (statuses, hosts, the loop position) is gone
FinishCycle ==
  /\ pc = "loop"
  /\ idx > Len(hosts)
  /\ LET kept == remove_stale(statuses, current_keys(hosts))
     IN /\ disk' = save_statuses(disk, kept)
        /\ removed' = (DOMAIN statuses) \ (DOMAIN kept)
        /\ track' = [k \in AllKeys |-> IF k \in DOMAIN kept THEN track[k] ELSE NoTrack]
  /\ disk2' = remove_stale(statuses2, current_keys(hosts))
  /\ statuses2' = <<>>
  /\ sent2' = <<>>
  /\ statuses' = <<>>
  /\ hosts' = <<>>
  /\ idx' = 1
  /\ sent' = <<>>
  /\ deliveries' = <<>>
  /\ saves' = saves + 1
  /\ pc' = "idle"
  /\ UNCHANGED <<now, FAIL_THRESHOLD, RECOVERY_THRESHOLD, enabledKeys, disabledKeys,
                 probe>>

Next == StartCycle \/ ProcessTarget \/ FinishCycle

Spec == Init /\ [][Next]_vars

\* ------------------------------------------ cycles that rename targets
\* target lists whose entries are enabled and carry one of two names
RenameItems == [name : {"n1", "n2"}, host : HostNames, port : {DefaultPort},
                enabled : {"True"}]

RenameLists ==
  {data \in UNION {[1..n -> RenameItems] : n \in 0..Cardinality(HostNames)} :
     \A i, j \in 1..Len(data) : i # j => data[i].host # data[j].host}

StartCycleRenamed == StartCycleOn(RenameLists, MaxRenameCycles * CycleSeconds)

NextRename == StartCycleRenamed \/ ProcessTarget \/ FinishCycle

SpecRename == Init /\ [][NextRename]_vars

\* ------------------------------- cycles over lists that repeat a target
\* target lists of enabled entries in which a host:port may occur twice
DupItems == [name : {"n1"}, host : HostNames, port : {DefaultPort}, enabled : {"True"}]

DupLists == UNION {[1..n -> DupItems] : n \in 0..MaxDupTargets}

StartCycleDup == StartCycleOn(DupLists, MaxDupCycles * CycleSeconds)

NextDup == StartCycleDup \/ ProcessTarget \/ FinishCycle

SpecDup == Init /\ [][NextDup]_vars

\* ------------------------------------ tcp_check_with_retries, step by step
\* the state of main() while one call of tcp_check_with_retries is followed
mainVars == <<pc, disk, statuses, hosts, idx, now, sent, deliveries, saves, FAIL_THRESHOLD,
              RECOVERY_THRESHOLD, enabledKeys, disabledKeys, removed, track,
              disk2, statuses2, sent2>>

\* a call with any retries argument and any outcomes of the single attempts
InitRetry ==
  /\ pc = "idle"
  /\ disk = <<>>
  /\ statuses = <<>>
  /\ hosts = <<>>
  /\ idx = 1
  /\ now = 0
  /\ sent = <<>>
  /\ deliveries = <<>>
  /\ saves = 0
  /\ FAIL_THRESHOLD = 3
  /\ RECOVERY_THRESHOLD = 2
  /\ enabledKeys = {}
  /\ disabledKeys = {}
  /\ removed = {}
  /\ track = [k \in AllKeys |-> NoTrack]
  /\ disk2 = <<>>
  /\ statuses2 = <<>>
  /\ sent2 = <<>>
  /\ \E retries \in -1..MaxRetries :
       \E outcomes \in [1..Max(1, retries) -> BOOLEAN] :
         probe = [pc |-> "attempt", retries |-> retries, outcomes |-> outcomes,
                  i |-> 0, last |-> FALSE, result |-> FALSE, attempts |-> 0,
                  sleeps |-> 0, trail |-> <<>>]

\* an attempt loop that does not stop at a successful attempt
RetryAttempt_noStop ==
  /\ probe.pc = "attempt"
  /\ LET ok == probe.outcomes[probe.i + 1]
     IN probe' = [probe EXCEPT !.attempts = @ + 1, !.trail = Append(@, "attempt"),
                               !.last = ok, !.pc = "sleep"]
  /\ UNCHANGED mainVars

\* ok = tcp_once(host, port); if ok: return True; last = ok
RetryAttempt ==
  /\ probe.pc = "attempt"
  /\ LET ok == probe.outcomes[probe.i + 1]
     IN probe' = IF ok
                 THEN [probe EXCEPT !.attempts = @ + 1, !.trail = Append(@, "attempt"),
                                    !.result = TRUE, !.pc = "done"]
                 ELSE [probe EXCEPT !.attempts = @ + 1, !.trail = Append(@, "attempt"),
                                    !.last = ok, !.pc = "sleep"]
  /\ UNCHANGED mainVars

\* time.sleep(RETRY_DELAY_SEC), then the next i of range(max(1, retries))
RetrySleep ==
  /\ probe.pc = "sleep"
  /\ probe' = [probe EXCEPT !.sleeps = @ + 1, !.trail = Append(@, "sleep"),
                            !.i = @ + 1,
                            !.pc = IF probe.i + 1 < Max(1, probe.retries)
                                   THEN "attempt" ELSE "return"]
  /\ UNCHANGED mainVars

\* return last
RetryReturn ==
  /\ probe.pc = "return"
  /\ probe' = [probe EXCEPT !.result = probe.last, !.pc = "done"]
  /\ UNCHANGED mainVars

NextRetry == RetryAttempt \/ RetrySleep \/ RetryReturn

SpecRetry == InitRetry /\ [][NextRetry]_vars


\* ------------------------------------------------ vocabulary of the claims
\* a step of ProcessTarget, the key it processes and what it emits
Processing == pc = "loop" /\ idx <= Len(hosts) /\ idx' = idx + 1
CurKey == Key(hosts[idx])
Emitted == SubSeq(sent', Len(sent) + 1, Len(sent'))
CombinedBefore == prev_combined_of(statuses, CurKey)
CombinedAfter == statuses'[CurKey].combined
SampleFails == track'[CurKey].dir = "offline"
SampleSucceeds == track'[CurKey].dir = "online"
ThresholdOf(dir) == IF dir = "offline" THEN FAIL_THRESHOLD ELSE RECOVERY_THRESHOLD

\* the mapping that holds the records of the processed samples
Records == IF pc = "loop" THEN statuses ELSE disk

\* C1: combined changes at most once per maximal run of same-direction
\* samples, and only in a cycle where the length of the current run has
\* reached the threshold of that direction.
C1_ChangeOnlyAtThreshold ==
  [][(Processing /\ CurKey \in DOMAIN statuses /\ CombinedAfter # CombinedBefore)
       => /\ track'[CurKey].changes <= 1
          /\ track'[CurKey].len >= ThresholdOf(track'[CurKey].dir)]_vars

\* C2: a notification is emitted for an endpoint only in a cycle in which its
\* stored combined value after the cycle differs from the one before it (a key
\* without a record has no stored value, read as "").
C2_NotifyOnlyOnChange ==
  [][(Processing /\ Emitted # <<>>) => CombinedAfter # CombinedBefore]_vars

C2_Witness ==
  /\ pc = "loop"
  /\ \E i \in 1..Len(sent) :
       /\ sent[i].kind = "ONLINE"
       /\ <<sent[i].host, sent[i].port>> \in DOMAIN disk
       /\ disk[<<sent[i].host, sent[i].port>>].combined = "offline"

\* C3: with both thresholds above 1, a single failing sample between two
\* successful samples of an online endpoint never sets combined to offline and
\* emits no notification, neither in its own cycle nor in the following one.
C3_IsolatedFailureIgnored ==
  [][(/\ FAIL_THRESHOLD > 1
      /\ RECOVERY_THRESHOLD > 1
      /\ Processing
      /\ SampleSucceeds
      /\ track[CurKey].dir = "offline"
      /\ track[CurKey].len = 1
      /\ track[CurKey].prevLen >= 1)
       => /\ CombinedBefore # "offline"
          /\ track[CurKey].notes = 0
          /\ Emitted = <<>>]_vars

\* C4: on an online endpoint a run of failing samples emits exactly one
\* OFFLINE notification, in the cycle of the failThreshold-th consecutive
\* failure, and none in any other cycle of the run.
C4_OfflineAtThreshold ==
  [][(Processing /\ SampleFails /\ track'[CurKey].prevLen >= 1)
       => IF track'[CurKey].len = FAIL_THRESHOLD
          THEN /\ Len(Emitted) = 1
               /\ Emitted[1].kind = "OFFLINE"
               /\ track'[CurKey].notes = 1
          ELSE Emitted = <<>>]_vars

\* C5: with recoveryThreshold = 2, on an endpoint that is offline since T0 two
\* consecutive successful samples emit exactly one ONLINE notification whose
\* downtime is computed from T0, and offline_since is unset after the second.
C5_OnlineAfterTwoSuccesses ==
  [][(/\ RECOVERY_THRESHOLD = 2
      /\ Processing
      /\ SampleSucceeds
      /\ track'[CurKey].len = 2
      /\ track'[CurKey].prevLen >= 1)
       => /\ track'[CurKey].notes = 1
          /\ track'[CurKey].last = "ONLINE"
          /\ \A i \in 1..Len(Emitted) :
               Emitted[i].downtime = format_duration_since(statuses[CurKey].offline_since, now)
          /\ statuses'[CurKey].offline_since = None]_vars

\* C6: a confirmed flip is reported once: no OFFLINE notification follows an
\* OFFLINE notification of the same endpoint without an ONLINE one in between,
\* and no ONLINE follows an ONLINE without an OFFLINE in between.
C6_NotificationsAlternate ==
  [][Processing => \A i \in 1..Len(Emitted) : Emitted[i].kind # track[CurKey].last]_vars

\* C7: offline_since is the time of the first failing sample of the current
\* failing streak on every sample of that streak, and it is cleared exactly in
\* the cycle in which the ONLINE notification fires.
C7_OfflineSincePerStreak ==
  [][Processing
       => /\ SampleFails => statuses'[CurKey].offline_since = track'[CurKey].start
          /\ (/\ CurKey \in DOMAIN statuses
              /\ statuses[CurKey].offline_since # None
              /\ statuses'[CurKey].offline_since = None)
               <=> (\E i \in 1..Len(Emitted) : Emitted[i].kind = "ONLINE")]_vars

\* C8: in every record exactly one of consec_fails and consec_success is
\* nonzero, and it equals the number of consecutive same-direction raw samples
\* ending at the last processed sample of that key.
C8_CountersFollowRun ==
  \A k \in DOMAIN Records :
    LET r == Records[k]
    IN /\ (r.consec_fails = 0) # (r.consec_success = 0)
       /\ track[k].dir = "offline" => r.consec_fails = track[k].len
       /\ track[k].dir = "online" => r.consec_success = track[k].len

C8_Witness ==
  \E k \in DOMAIN disk :
    /\ disk[k].consec_success >= 2
    /\ track[k].prevLen >= 2

\* C9 as stated: the first cycle of a key without a record seeds combined from
\* the raw sample and emits no notification, for all thresholds >= 1.
C9_FirstCycleSilent ==
  [][(Processing /\ CurKey \notin DOMAIN statuses)
       => /\ CombinedAfter = track'[CurKey].dir
          /\ Emitted = <<>>]_vars

\* C9 amended: the first cycle of a key without a record seeds combined from
\* the raw sample and never emits ONLINE; it emits one OFFLINE notification
\* exactly when the first sample fails and failThreshold = 1.
C9_FirstCycleSeeds ==
  [][(Processing /\ CurKey \notin DOMAIN statuses)
       => /\ CombinedAfter = track'[CurKey].dir
          /\ IF SampleFails /\ FAIL_THRESHOLD = 1
             THEN Len(Emitted) = 1 /\ Emitted[1].kind = "OFFLINE"
             ELSE Emitted = <<>>]_vars

C9_Witness ==
  /\ pc = "loop"
  /\ FAIL_THRESHOLD = 1
  /\ \E k \in (DOMAIN statuses) \ (DOMAIN disk) :
       /\ statuses[k].combined = "offline"
       /\ statuses[k].consec_fails = 1
       /\ \E i \in 1..Len(sent) : sent[i].kind = "OFFLINE" /\ sent[i].host = k[1]

Finishing == pc = "loop" /\ pc' = "idle"

\* C11: a target listed with enabled = false is skipped entirely: it is not
\* probed, no record is created for it, and a record that exists for its key
\* is neither deleted by the reconciliation nor changed.
C11_DisabledKeptUntouched ==
  [][/\ Processing => CurKey \notin disabledKeys
     /\ Finishing =>
          \A k \in disabledKeys :
            IF k \in DOMAIN disk
            THEN k \in DOMAIN disk' /\ disk'[k] = disk[k]
            ELSE k \notin DOMAIN disk']_vars

\* the first successful attempt of a sequence of outcomes, 0 if there is none
FirstSuccess(outcomes) ==
  IF \E j \in 1..Len(outcomes) : outcomes[j]
  THEN CHOOSE j \in 1..Len(outcomes) :
         outcomes[j] /\ \A m \in 1..(j - 1) : ~outcomes[m]
  ELSE 0

\* C12: the retry wrapper makes at most max(1, retries) attempts, returns true
\* at the first successful attempt without a further attempt, and returns
\* false only after max(1, retries) failed attempts; with retries = 3 and
\* outcomes fail, fail, success it returns true after exactly 3 attempts.
C12_RetryResult ==
  LET n == Max(1, probe.retries)
      f == FirstSuccess(probe.outcomes)
  IN /\ probe.attempts <= n
     /\ probe.pc = "done" =>
          /\ probe.result = (f # 0)
          /\ probe.attempts = IF f # 0 THEN f ELSE n
          /\ probe.result = tcp_check_with_retries(probe.outcomes, probe.retries).result
          /\ probe.attempts = tcp_check_with_retries(probe.outcomes, probe.retries).attempts
          /\ (probe.retries = 3 /\ probe.outcomes = <<FALSE, FALSE, TRUE>>)
               => (probe.result /\ probe.attempts = 3)

C12_Witness ==
  /\ probe.pc = "done"
  /\ probe.retries = 3
  /\ probe.outcomes = <<FALSE, FALSE, TRUE>>
  /\ probe.result
  /\ probe.attempts = 3

\* C13: a retry-delay sleep occurs only between two attempts: no sleep follows
\* the last attempt, so a call with k attempts contains exactly k - 1 sleeps.
C13_SleepOnlyBetweenAttempts ==
  probe.pc = "done" =>
    /\ probe.sleeps = probe.attempts - 1
    /\ probe.trail[Len(probe.trail)] = "attempt"

WithName(msgs, name) == [i \in 1..Len(msgs) |-> [msgs[i] EXCEPT !.name = name]]

\* C14: a cycle that finds a target under a new name stores the new name, and
\* its counters, combined, offline_since and notifications (apart from the
\* name in the message) are those of the same cycle run with the stored name.
C14_RenameChangesOnlyName ==
  [][(/\ Processing
      /\ CurKey \in DOMAIN statuses
      /\ hosts[idx].name # statuses[CurKey].name)
       => LET old == statuses[CurKey].name
              unrenamed == Engine(statuses, [hosts[idx] EXCEPT !.name = old],
                                  SampleSucceeds, now, FAIL_THRESHOLD, RECOVERY_THRESHOLD)
          IN /\ statuses'[CurKey].name = hosts[idx].name
             /\ [statuses'[CurKey] EXCEPT !.name = old] = unrenamed.rec
             /\ WithName(Emitted, old) = unrenamed.msgs]_vars

C14_Witness ==
  /\ pc = "loop"
  /\ \E k \in (DOMAIN statuses) \cap (DOMAIN disk) :
       /\ statuses[k].name # disk[k].name
       /\ \E i \in 1..Len(sent) :
            sent[i].host = k[1] /\ sent[i].name = statuses[k].name

\* main() is inside the loop, at a target that is still to be processed
AtTarget == pc = "loop" /\ idx <= Len(hosts)

\* C15: in every cycle the state mapping is written exactly once, after every
\* enabled target has been processed and the stale keys have been removed; no
\* write happens between two targets.
C15_OneWriteAtTheEnd ==
  [][/\ AtTarget => (disk' = disk /\ saves' = 0)
     /\ disk' # disk => Finishing
     /\ Finishing =>
          /\ idx > Len(hosts)
          /\ saves = 0 /\ saves' = 1
          /\ DOMAIN disk' = enabledKeys
          /\ \A k \in DOMAIN disk' : disk'[k] = statuses[k]]_vars

C15_Witness ==
  /\ pc = "idle"
  /\ saves = 1
  /\ removed # {}
  /\ Cardinality(DOMAIN disk) = 1
  /\ \E k \in DOMAIN disk : disk[k].consec_fails = 2

\* C16: the records do not depend on the delivery of notifications: whatever
\* becomes of a notification (dry run, sink not configured, posted, HTTP
\* error), the run goes on to the next target and the record of the processed
\* target is the one the engine computed from the prior record and the sample,
\* with the transition applied and offline_since cleared on ONLINE.
C16_StateIndependentOfDelivery ==
  [][AtTarget =>
       LET r == Engine(statuses, hosts[idx], SampleSucceeds, now,
                       FAIL_THRESHOLD, RECOVERY_THRESHOLD)
       IN /\ pc' = "loop"
          /\ idx' = idx + 1
          /\ statuses' = Put(statuses, CurKey, r.rec)
          /\ Len(deliveries') = Len(sent')
          /\ (\E i \in 1..Len(Emitted) : Emitted[i].kind = "ONLINE")
               => statuses'[CurKey].offline_since = None]_vars

C16_Witness ==
  /\ pc = "loop"
  /\ \E i \in 1..Len(sent) :
       /\ sent[i].kind = "ONLINE"
       /\ deliveries[i] = "error"
       /\ statuses[<<sent[i].host, sent[i].port>>].offline_since = None
       /\ statuses[<<sent[i].host, sent[i].port>>].combined = "online"

\* C17: processing a target leaves the record of every other key unchanged,
\* and every key is advanced by exactly one sample per cycle, also when two
\* entries of the list share host and port.
C17_OwnKeyOneSamplePerCycle ==
  [][Processing =>
       /\ \A k \in (DOMAIN statuses) \ {CurKey} :
            k \in DOMAIN statuses' /\ statuses'[k] = statuses[k]
       /\ DOMAIN statuses' = (DOMAIN statuses) \cup {CurKey}
       /\ track'[CurKey].inCycle = 1]_vars

C19_FailingHasOfflineSince ==
  /\ \A k \in DOMAIN Records :
       Records[k].consec_fails >= 1 => Records[k].offline_since # None
  /\ \A i \in 1..Len(sent) : sent[i].kind = "OFFLINE" => sent[i].time # None

C19_Witness ==
  \E k \in DOMAIN disk :
    /\ disk[k].consec_success >= 1
    /\ disk[k].offline_since # None
    /\ track[k].last = "OFFLINE"

\* a mapping with the values of its timestamps left out
Untimed(st) ==
  [k \in DOMAIN st |->
     [st[k] EXCEPT !.offline_since = IF @ = None THEN "unset" ELSE "set",
                   !.last_check = IF @ = None THEN "unset" ELSE "set"]]

Kinds(msgs) == [i \in 1..Len(msgs) |-> msgs[i].kind]

\* C20: run on the same prior mapping, enabled targets, thresholds and raw
\* samples, monitor.py and monitor2.py hold and persist the same records
\* (timestamp values aside) and emit the same kind of notification for each
\* target in each cycle.
C20_VariantsAgree ==
  /\ Untimed(statuses2) = Untimed(statuses)
  /\ Untimed(disk2) = Untimed(disk)
  /\ Kinds(sent2) = Kinds(sent)

C20_Witness ==
  /\ pc = "loop"
  /\ disk2 # <<>>
  /\ \E i \in 1..Len(sent2) :
       /\ sent2[i].kind = "ONLINE"
       /\ statuses2[<<sent2[i].host, sent2[i].port>>].offline_since = None
  /\ \E k \in DOMAIN statuses2 : statuses2[k].consec_fails >= 2

====
